---------------------------- MODULE Spec2Model ----------------------------
(***************************************************************************)
(* Forex arbitrage subscriber (subscriber.py, fxp_bytes_subscriber.py).    *)
(*                                                                         *)
(* Units.  Time is counted in ticks of 50 ms, prices in thousandths,       *)
(* edge weights (negative natural logs of prices) in millionths, trade     *)
(* amounts in hundredths.  Python dicts are association lists: sequences   *)
(* of <<key, value>> pairs in insertion order.                             *)
(***************************************************************************)
EXTENDS Integers, Sequences, FiniteSets, TLC

VARIABLES
    rate_graph,           \* self.rate_graph: dict currency -> dict currency -> weight
    quote_timestamps,     \* self.quote_timestamps: dict (u, v) -> timestamp
    last_processed_time,  \* listen(): local last_processed_time
    quote_data,           \* listen(): the for-loop's current quote
    quotes_left,          \* listen(): records of unmarshaled_quotes not yet iterated
    msg_len,              \* listen(): len(byte_message) of the datagram in hand
    pc,                   \* listen(): position inside the while-loop body
    now,                  \* the UTC wall clock, in ticks
    stale_cutoff_time,    \* cleanup_graph(): <<cutoff>> of this iteration's sweep, <<>> before it
    detection,            \* listen(): (distances, predecessors, negative_edge)
    log,                  \* listen(): lines printed by self.log since the last recvfrom
    received,             \* number of datagrams taken from the socket
    subPc,                \* subscribe(): position of the renewal thread
    cycle_detection_node, \* listen(): the node handed to print_arbitrage, or None
    subscribe_log         \* subscribe(): categories of the lines printed by self.log

vars == <<rate_graph, quote_timestamps, last_processed_time, quote_data, quotes_left,
          msg_len, pc, now, stale_cutoff_time, detection, log, received, subPc,
          cycle_detection_node, subscribe_log>>

---------------------------------------------------------------------------
(* Program constants.                                                      *)

QUOTE_EXPIRATION_TIME == 2          \* 0.1 s
QUOTE_STALE_TIMEOUT == 30           \* 1.5 s
ARBITRAGE_START_AMOUNT == 100
RECORD_SIZE == 32                   \* bytes per quote on the wire
PriceScale == 1000                  \* a price p is held as p * 1000
AmountScale == 100                  \* an amount a is held as a * 100
\* shortest_paths('USD', 1e-12): the tolerance in weight units.  For integer
\* a, b and a real e >= 0,  a < b - e  iff  a + Floor(e) < b;  1e-12 is
\* 1e-6 of a weight unit, whose floor is 0.
DETECTOR_TOLERANCE == 0
ANCHOR == "USD"

None == "None"                      \* Python's None
NoEdge == <<>>                      \* None, where an edge (u, v) is expected
Infinity == 2000000000              \* float('inf'): above every finite distance

---------------------------------------------------------------------------
(* Bounds of the model.                                                    *)

MaxDatagrams == 2                   \* datagrams received in one run
MaxQuotes == 2                      \* whole records in one datagram
MaxTime == 31                       \* the clock stops advancing here
MaxEdges == 3                       \* edges of a graph handed to the detector on its own
MaxSends == 2                       \* subscription sends attempted in one run
MaxRunDatagrams == 1                \* datagrams received while the renewal thread is watched

Currency == {"USD", "GBP", "EUR"}
\* The (cross, price) pairs the feed publishes: both directions of USD-GBP,
\* a triangle through EUR, a quote of a currency against itself, and a
\* record whose price field is zero.
Feed == { <<<<"USD", "GBP">>, 760>>, <<<<"GBP", "USD">>, 1320>>,
          <<<<"GBP", "EUR">>, 760>>, <<<<"EUR", "USD">>, 1320>>,
          <<<<"USD", "USD">>, 760>>, <<<<"USD", "GBP">>, 0>> }
Timestamps == {0, 1, 1 + QUOTE_EXPIRATION_TIME}
TickSteps == {QUOTE_STALE_TIMEOUT - 1, QUOTE_STALE_TIMEOUT, QUOTE_STALE_TIMEOUT + 1}
LocalOffsets == {0, QUOTE_EXPIRATION_TIME + 1}
TrailingBytes == {0, 5}

\* quote_data before the for-loop has bound it
NoQuote == [cross |-> <<None, None>>, price |-> 0, timestamp |-> 0]

\* The quote records unmarshal_message can return.
Quote == { [cross |-> f[1], price |-> f[2], timestamp |-> t] : f \in Feed, t \in Timestamps }

---------------------------------------------------------------------------
(* Python dict, in insertion order.                                        *)

DictKeys(d) == { d[i][1] : i \in DOMAIN d }
DictHas(d, k) == \E i \in DOMAIN d : d[i][1] = k
DictGet(d, k) == d[CHOOSE i \in DOMAIN d : d[i][1] = k][2]
\* d[k] = v : in place when the key exists, appended otherwise
DictSet(d, k, v) ==
    IF DictHas(d, k)
    THEN [i \in DOMAIN d |-> IF d[i][1] = k THEN <<k, v>> ELSE d[i]]
    ELSE Append(d, <<k, v>>)
RECURSIVE DictDel(_, _)
\* del d[k]
DictDel(d, k) ==
    IF d = <<>> THEN <<>>
    ELSE IF Head(d)[1] = k THEN DictDel(Tail(d), k)
    ELSE <<Head(d)>> \o DictDel(Tail(d), k)

\* u -> v is an edge of graph g
HasEdge(g, u, v) == DictHas(g, u) /\ DictHas(DictGet(g, u), v)
Weight(g, u, v) == DictGet(DictGet(g, u), v)
Edges(g) == { <<u, v>> \in DictKeys(g) \X Currency : HasEdge(g, u, v) }

---------------------------------------------------------------------------
(* math.log and math.exp on the values that occur, rounded to the unit.    *)

\* math.log(p) for a price p in thousandths, in millionths; p > 0
Ln(p) ==
    CASE p = 760  -> -274437
      [] p = 1320 -> 277632
      [] p = 1000 -> 0

\* math.exp(x) for x in millionths, in thousandths
Exp(x) ==
    CASE x = 0       -> 1000
      [] x = -274437 -> 760
      [] x = 274437  -> 1316
      [] x = 277632  -> 1320
      [] x = -277632 -> 758
      [] x = 10000   -> 1010
      [] x = -10000  -> 990
      [] x = 500000  -> 1649
      [] x = -500000 -> 607

---------------------------------------------------------------------------
(* Subscriber.add_to_graph: the new (rate_graph, quote_timestamps).        *)
(* math.log raises ValueError for price <= 0 before anything is written;   *)
(* the caller models that (see ProcessQuote).                              *)

\* add_to_graph without its second half: the reciprocal edge is not written
add_to_graph_forward(rg, qts, currencies, q) ==
    LET w == -1 * Ln(q.price)
        g1 == IF ~DictHas(rg, currencies[1]) THEN DictSet(rg, currencies[1], <<>>) ELSE rg
        g2 == DictSet(g1, currencies[1], DictSet(DictGet(g1, currencies[1]), currencies[2], w))
        g3 == IF ~DictHas(g2, currencies[2]) THEN DictSet(g2, currencies[2], <<>>) ELSE g2
    IN  [rate_graph |-> g3,
         quote_timestamps |-> DictSet(qts, <<currencies[1], currencies[2]>>, q.timestamp)]

add_to_graph(rg, qts, currencies, quote_record) ==
    LET forward_rate_neg_log == -1 * Ln(quote_record.price)
        quote_timestamp == quote_record.timestamp
        base_currency == currencies[1]
        quote_currency == currencies[2]
        g1 == IF ~DictHas(rg, base_currency) THEN DictSet(rg, base_currency, <<>>) ELSE rg
        g2 == DictSet(g1, base_currency,
                      DictSet(DictGet(g1, base_currency), quote_currency, forward_rate_neg_log))
        t1 == DictSet(qts, <<base_currency, quote_currency>>, quote_timestamp)
        reciprocal_rate_neg_log == -1 * forward_rate_neg_log
        g3 == IF ~DictHas(g2, quote_currency) THEN DictSet(g2, quote_currency, <<>>) ELSE g2
        g4 == DictSet(g3, quote_currency,
                      DictSet(DictGet(g3, quote_currency), base_currency, reciprocal_rate_neg_log))
        t2 == DictSet(t1, <<quote_currency, base_currency>>, quote_timestamp)
    IN  [rate_graph |-> g4, quote_timestamps |-> t2]

---------------------------------------------------------------------------
(* Subscriber.cleanup_graph.                                               *)

\* the comparison with its sides exchanged
IsStaleReversed(timestamp, cutoff) == cutoff <= timestamp

\* the comparison that selects an edge for deletion
IsStale(timestamp, cutoff) == timestamp <= cutoff

\* edges_to_delete: the keys of quote_timestamps selected, in dict order
edges_to_delete(qts, cutoff) ==
    LET sel == SelectSeq(qts, LAMBDA e : IsStale(e[2], cutoff))
    IN  [i \in DOMAIN sel |-> sel[i][1]]

\* the loop body without its two deletions from quote_timestamps
delete_edge_keeps_index(st, s, t) ==
    LET g   == st.rate_graph
        g1  == IF HasEdge(g, s, t) THEN DictSet(g, s, DictDel(DictGet(g, s), t)) ELSE g
        g2  == IF HasEdge(g1, t, s) THEN DictSet(g1, t, DictDel(DictGet(g1, t), s)) ELSE g1
        l1  == IF HasEdge(g, s, t) THEN Append(st.log, <<"CLEANUP", s, t>>) ELSE st.log
    IN  [rate_graph |-> g2, quote_timestamps |-> st.quote_timestamps, log |-> l1]

\* drop the keys of graph g whose edge map is empty
Pruned(g) == SelectSeq(g, LAMBDA kv : kv[2] # <<>>)

\* the loop body deleting as well every node left without an edge
delete_edge_prunes_nodes(st, s, t) ==
    LET g   == st.rate_graph
        g1  == IF HasEdge(g, s, t) THEN DictSet(g, s, DictDel(DictGet(g, s), t)) ELSE g
        g2  == IF HasEdge(g1, t, s) THEN DictSet(g1, t, DictDel(DictGet(g1, t), s)) ELSE g1
        q1  == IF DictHas(st.quote_timestamps, <<s, t>>)
               THEN DictDel(st.quote_timestamps, <<s, t>>) ELSE st.quote_timestamps
        q2  == IF DictHas(q1, <<t, s>>) THEN DictDel(q1, <<t, s>>) ELSE q1
        l1  == IF HasEdge(g, s, t) THEN Append(st.log, <<"CLEANUP", s, t>>) ELSE st.log
    IN  [rate_graph |-> Pruned(g2), quote_timestamps |-> q2, log |-> l1]

\* one iteration of the deletion loop, for the edge (s, t)
delete_edge(st, s, t) ==
    LET g   == st.rate_graph
        g1  == IF HasEdge(g, s, t) THEN DictSet(g, s, DictDel(DictGet(g, s), t)) ELSE g
        g2  == IF HasEdge(g1, t, s) THEN DictSet(g1, t, DictDel(DictGet(g1, t), s)) ELSE g1
        q1  == IF DictHas(st.quote_timestamps, <<s, t>>)
               THEN DictDel(st.quote_timestamps, <<s, t>>) ELSE st.quote_timestamps
        q2  == IF DictHas(q1, <<t, s>>) THEN DictDel(q1, <<t, s>>) ELSE q1
        l1  == IF HasEdge(g, s, t) THEN Append(st.log, <<"CLEANUP", s, t>>) ELSE st.log
    IN  [rate_graph |-> g2, quote_timestamps |-> q2, log |-> l1]

\* the deletion loop leaving after its first iteration
delete_edges_once(st, todo) ==
    IF todo = <<>> THEN st ELSE delete_edge(st, Head(todo)[1], Head(todo)[2])

RECURSIVE delete_edges(_, _)
delete_edges(st, todo) ==
    IF todo = <<>> THEN st
    ELSE delete_edges(delete_edge(st, Head(todo)[1], Head(todo)[2]), Tail(todo))

\* cleanup_graph with the clock reading clock: the new graph, index and log
cleanup_graph(rg, qts, lg, clock) ==
    LET cutoff == clock - QUOTE_STALE_TIMEOUT
    IN  delete_edges([rate_graph |-> rg, quote_timestamps |-> qts, log |-> lg],
                     edges_to_delete(qts, cutoff))

---------------------------------------------------------------------------
(* bellman_ford.BellmanFord: the Negative-Cycle Detector.  Distances and   *)
(* predecessors are functions on the vertex set; the edges are visited in  *)
(* the order the dicts hold them.                                          *)

RECURSIVE InnerEdges(_, _)
InnerEdges(u, inner) ==
    IF inner = <<>> THEN <<>>
    ELSE <<<<u, Head(inner)[1], Head(inner)[2]>>>> \o InnerEdges(u, Tail(inner))

RECURSIVE EdgeList(_)
\* the edges <<u, v, w>> of graph g: for u in g, for v in g[u]
EdgeList(g) ==
    IF g = <<>> THEN <<>>
    ELSE InnerEdges(Head(g)[1], Head(g)[2]) \o EdgeList(Tail(g))

Vertices(g, start) ==
    DictKeys(g) \cup { e[2] : e \in { EdgeList(g)[i] : i \in DOMAIN EdgeList(g) } } \cup {start}

\* the comparison without its test for +infinity
ImprovesUnguarded(du, w, dv, tolerance) == du + w + tolerance < dv

\* distance(u) + weight(u, v) < distance(v) - tolerance, with +infinity
Improves(du, w, dv, tolerance) ==
    /\ du # Infinity
    /\ (dv = Infinity \/ du + w + tolerance < dv)

\* the relaxation of one edge
relax(st, e) ==
    IF Improves(st.distances[e[1]], e[3], st.distances[e[2]], 0)
    THEN [distances |-> [st.distances EXCEPT ![e[2]] = st.distances[e[1]] + e[3]],
          predecessors |-> [st.predecessors EXCEPT ![e[2]] = e[1]]]
    ELSE st

RECURSIVE relax_all(_, _)
\* one round: every edge relaxed once, in order
relax_all(st, edges) ==
    IF edges = <<>> THEN st ELSE relax_all(relax(st, Head(edges)), Tail(edges))

RECURSIVE relax_rounds(_, _, _)
relax_rounds(st, edges, n) ==
    IF n = 0 THEN st ELSE relax_rounds(relax_all(st, edges), edges, n - 1)

RECURSIVE first_violation(_, _, _)
\* the additional pass: the first edge that still improves, or NoEdge
first_violation(st, edges, tolerance) ==
    IF edges = <<>> THEN NoEdge
    ELSE IF Improves(st.distances[Head(edges)[1]], Head(edges)[3],
                     st.distances[Head(edges)[2]], tolerance)
         THEN <<Head(edges)[1], Head(edges)[2]>>
         ELSE first_violation(st, Tail(edges), tolerance)

\* BellmanFord(g).shortest_paths(start, tolerance)
shortest_paths(g, start, tolerance) ==
    LET V == Vertices(g, start)
        st0 == [distances |-> [v \in V |-> IF v = start THEN 0 ELSE Infinity],
                predecessors |-> [v \in V |-> None]]
        st == relax_rounds(st0, EdgeList(g), Cardinality(V) - 1)
    IN  [start |-> start, tolerance |-> tolerance,
         distances |-> st.distances, predecessors |-> st.predecessors,
         negative_edge |-> first_violation(st, EdgeList(g), tolerance)]

---------------------------------------------------------------------------
(* Subscriber.print_arbitrage: the Cycle Reconstructor.  The result is the *)
(* sequence of lines it logs.                                              *)

\* predecessor_map.get(k, None)
PredGet(predecessor_map, k) ==
    IF k \in DOMAIN predecessor_map THEN predecessor_map[k] ELSE None

RECURSIVE walk_back(_, _, _, _, _)
\* the while-loop that collects cycle_steps
walk_back(predecessor_map, cycle_start_currency, cycle_steps, current_step, visited_nodes) ==
    IF current_step = None \/ current_step \in visited_nodes THEN cycle_steps
    ELSE LET steps1 == Append(cycle_steps, current_step)
             next_step == PredGet(predecessor_map, current_step)
         IN  IF next_step = cycle_start_currency
             THEN Append(steps1, next_step)
             ELSE walk_back(predecessor_map, cycle_start_currency, steps1, next_step,
                            visited_nodes \cup {current_step})

Reverse(s) == [i \in DOMAIN s |-> s[Len(s) + 1 - i]]

\* cycle_steps without the reverse()
cycle_steps_unreversed(predecessor_map, cycle_start_currency) ==
    walk_back(predecessor_map, cycle_start_currency, <<cycle_start_currency>>,
              PredGet(predecessor_map, cycle_start_currency), {})

\* cycle_steps after the reverse()
cycle_steps_of(predecessor_map, cycle_start_currency) ==
    Reverse(walk_back(predecessor_map, cycle_start_currency, <<cycle_start_currency>>,
                      PredGet(predecessor_map, cycle_start_currency), {}))

\* current_amount *= math.exp(-1 * weight)
Compound(current_amount, weight) == (current_amount * Exp(-1 * weight)) \div PriceScale

RECURSIVE replay(_, _, _, _, _, _)
\* the for-loop over range(1, len(cycle_steps)); i counts from 1 as in the code
replay(rg, cycle_steps, i, previous_currency, current_amount, lines) ==
    IF i > Len(cycle_steps) - 1 THEN lines
    ELSE LET next_currency == IF i = Len(cycle_steps) - 1 THEN cycle_steps[1]
                              ELSE cycle_steps[i + 1]
         IN  IF ~HasEdge(rg, previous_currency, next_currency)
             THEN Append(lines, <<"WARNING", "Edge missing", previous_currency, next_currency>>)
             ELSE LET exchange_rate == Exp(-1 * Weight(rg, previous_currency, next_currency))
                      amount == Compound(current_amount, Weight(rg, previous_currency, next_currency))
                  IN  replay(rg, cycle_steps, i + 1, next_currency, amount,
                             Append(lines, <<"ARBITRAGE", "Exchange", previous_currency,
                                             next_currency, exchange_rate, amount>>))

print_arbitrage(rg, predecessor_map, cycle_start_currency, initial_trade_amount) ==
    IF PredGet(predecessor_map, cycle_start_currency) = None
    THEN <<<<"WARNING", "Cannot reconstruct path", cycle_start_currency>>>>
    ELSE LET cycle_steps == cycle_steps_of(predecessor_map, cycle_start_currency)
         IN  IF Len(cycle_steps) < 2 \/ cycle_steps[1] # cycle_steps[Len(cycle_steps)]
             THEN <<>>
             ELSE replay(rg, cycle_steps, 1, cycle_start_currency, initial_trade_amount,
                         << <<"ARBITRAGE", "Cycle found.">>,
                            <<"ARBITRAGE", "Start", cycle_start_currency, initial_trade_amount>> >>)

\* listen() without the patch: the predecessors as the detector returned them
unpatched(predecessors, negative_edge) == predecessors

\* listen(): predecessors after the patch for the proof edge (u_node, v_node)
patched(predecessors, negative_edge) ==
    IF PredGet(predecessors, negative_edge[2]) = None
    THEN [k \in DOMAIN predecessors \cup {negative_edge[2]} |->
            IF k = negative_edge[2] THEN negative_edge[1] ELSE predecessors[k]]
    ELSE predecessors

RECURSIVE walk_in(_, _, _)
\* listen(): the loop `for _ in range(num_nodes)' with its break
walk_in(predecessors, node, n) ==
    IF n = 0 THEN node
    ELSE LET nxt == PredGet(predecessors, node)
         IN  IF nxt = None THEN None ELSE walk_in(predecessors, nxt, n - 1)

\* listen(): the node print_arbitrage is started from, or None
cycle_detection_node_of(rg, predecessors, negative_edge) ==
    walk_in(patched(predecessors, negative_edge), negative_edge[1], Len(rg))

\* listen(): the lines logged once a proof edge was returned
report(rg, predecessors, negative_edge) ==
    LET node == cycle_detection_node_of(rg, predecessors, negative_edge)
    IN  IF node # None
        THEN print_arbitrage(rg, patched(predecessors, negative_edge), node,
                             ARBITRAGE_START_AMOUNT * AmountScale)
        ELSE <<<<"WARNING", "Could not reconstruct cycle">>>>

---------------------------------------------------------------------------
(* fxp_bytes_subscriber.unmarshal_message: a datagram is its whole records *)
(* followed by `extra' trailing bytes; `ascii' is FALSE when a currency    *)
(* field holds a byte outside ASCII (bytes.decode raises).                 *)

(* The records themselves are drawn when the for-loop reaches them.        *)

Datagram == [records : 0 .. MaxQuotes, extra : TrailingBytes, ascii : BOOLEAN]

ByteLen(d) == RECORD_SIZE * d.records + d.extra

\* num_quotes = len(b) // 32: the number of quotes returned
unmarshal_message(d) == ByteLen(d) \div RECORD_SIZE

---------------------------------------------------------------------------
(* Subscriber.listen.                                                      *)

NoDetection ==
    [start |-> None, tolerance |-> 0, distances |-> <<>>, predecessors |-> <<>>,
     negative_edge |-> NoEdge]

Init ==
    /\ rate_graph = <<>>
    /\ quote_timestamps = <<>>
    /\ now = 0
    /\ \E off \in LocalOffsets : last_processed_time = now + off
    /\ quote_data = NoQuote
    /\ quotes_left = 0
    /\ msg_len = 0
    /\ pc = "recv"
    /\ stale_cutoff_time = <<>>
    /\ detection = NoDetection
    /\ log = <<>>
    /\ received = 0
    /\ subPc = "send"
    /\ cycle_detection_node = None
    /\ subscribe_log = <<>>

\* the clock advances while recvfrom blocks
Tick ==
    /\ pc = "recv"
    /\ \E d \in TickSteps :
         /\ now + d <= MaxTime
         /\ now' = now + d
    /\ UNCHANGED <<rate_graph, quote_timestamps, last_processed_time, quote_data,
                   quotes_left, msg_len, pc, stale_cutoff_time, detection, log, received, subPc,
                   cycle_detection_node, subscribe_log>>

\* recvfrom and unmarshal_message, while fewer than limit datagrams have arrived
RecvUpTo(limit) ==
    /\ pc = "recv"
    /\ received < limit
    /\ received' = received + 1
    /\ \E d \in Datagram :
         /\ msg_len' = ByteLen(d)
         /\ IF d.ascii
            THEN /\ quotes_left' = unmarshal_message(d)
                 /\ pc' = IF quotes_left' = 0 THEN "cleanup" ELSE "quote"
                 /\ log' = <<>>
            ELSE /\ quotes_left' = 0
                 /\ pc' = "except"
                 /\ log' = <<<<"ERROR", "Listener error">>>>
    /\ UNCHANGED <<rate_graph, quote_timestamps, last_processed_time, quote_data, now,
                   stale_cutoff_time, detection, subPc,
                   cycle_detection_node, subscribe_log>>

Recv == RecvUpTo(MaxDatagrams)

\* the gate with the subtraction turned round
AcceptsReversed(lpt, quote_timestamp) == quote_timestamp - lpt < QUOTE_EXPIRATION_TIME

\* the freshness gate of the for-loop body
Accepts(lpt, quote_timestamp) == lpt - quote_timestamp < QUOTE_EXPIRATION_TIME

\* one pass of the for-loop body
ProcessQuote ==
    /\ pc = "quote"
    /\ quote_data' \in Quote
    /\ LET q == quote_data'
           currency_pair == q.cross
           rest == quotes_left - 1
           line == <<"QUOTE", currency_pair[1], currency_pair[2], q.price>>
       IN  IF Accepts(last_processed_time, q.timestamp)
           THEN IF q.price <= 0
                THEN \* math.log raises ValueError: the except clause ends the iteration
                     /\ log' = log \o <<line, <<"ERROR", "Listener error">>>>
                     /\ pc' = "except"
                     /\ quotes_left' = 0
                     /\ UNCHANGED <<rate_graph, quote_timestamps, last_processed_time>>
                ELSE LET r == add_to_graph(rate_graph, quote_timestamps, currency_pair, q)
                     IN  /\ rate_graph' = r.rate_graph
                         /\ quote_timestamps' = r.quote_timestamps
                         /\ last_processed_time' = q.timestamp
                         /\ log' = Append(log, line)
                         /\ quotes_left' = rest
                         /\ pc' = IF rest = 0 THEN "cleanup" ELSE "quote"
           ELSE /\ log' = log \o <<line, <<"WARNING", "Ignoring out-of-sequence message">>>>
                /\ quotes_left' = rest
                /\ pc' = IF rest = 0 THEN "cleanup" ELSE "quote"
                /\ UNCHANGED <<rate_graph, quote_timestamps, last_processed_time>>
    /\ UNCHANGED <<msg_len, now, stale_cutoff_time, detection, received, subPc,
                   cycle_detection_node, subscribe_log>>

\* self.cleanup_graph(), then the test `if self.rate_graph'
Cleanup ==
    /\ pc = "cleanup"
    /\ LET r == cleanup_graph(rate_graph, quote_timestamps, log, now)
       IN  /\ rate_graph' = r.rate_graph
           /\ quote_timestamps' = r.quote_timestamps
           /\ log' = r.log
    /\ stale_cutoff_time' = <<now - QUOTE_STALE_TIMEOUT>>
    /\ pc' = IF rate_graph' # <<>> THEN "detect" ELSE "done"
    /\ UNCHANGED <<last_processed_time, quote_data, quotes_left, msg_len, now, detection,
                   received, subPc,
                   cycle_detection_node, subscribe_log>>

\* BellmanFord(self.rate_graph).shortest_paths(start, tolerance)
DetectWith(start, tolerance) ==
    /\ pc = "detect"
    /\ detection' = shortest_paths(rate_graph, start, tolerance)
    /\ pc' = IF detection'.negative_edge # NoEdge THEN "reconstruct" ELSE "done"
    /\ UNCHANGED <<rate_graph, quote_timestamps, last_processed_time, quote_data,
                   quotes_left, msg_len, now, stale_cutoff_time, log, received, subPc,
                   cycle_detection_node, subscribe_log>>

Detect == DetectWith(ANCHOR, DETECTOR_TOLERANCE)

\* the branch `if negative_edge is not None'
Reconstruct ==
    /\ pc = "reconstruct"
    /\ log' = log \o report(rate_graph, detection.predecessors, detection.negative_edge)
    /\ detection' = [detection EXCEPT
                       !.predecessors = patched(detection.predecessors, detection.negative_edge)]
    /\ cycle_detection_node' =
          cycle_detection_node_of(rate_graph, detection.predecessors, detection.negative_edge)
    /\ pc' = "done"
    /\ UNCHANGED <<rate_graph, quote_timestamps, last_processed_time, quote_data,
                   quotes_left, msg_len, now, stale_cutoff_time, received, subPc,
                   subscribe_log>>

\* the loop without its except clause: only a pass that ran to its end goes on
ContinueUncaught ==
    /\ pc = "done"
    /\ pc' = "recv"
    /\ quote_data' = NoQuote
    /\ quotes_left' = 0
    /\ msg_len' = 0
    /\ detection' = NoDetection
    /\ stale_cutoff_time' = <<>>
    /\ cycle_detection_node' = None
    /\ UNCHANGED <<rate_graph, quote_timestamps, last_processed_time, now, log, received,
                   subPc, subscribe_log>>

\* the end of the loop body, or of the except clause: back to recvfrom
Continue ==
    /\ pc \in {"done", "except"}
    /\ pc' = "recv"
    /\ quote_data' = NoQuote
    /\ quotes_left' = 0
    /\ msg_len' = 0
    /\ detection' = NoDetection
    /\ stale_cutoff_time' = <<>>
    /\ cycle_detection_node' = None
    /\ UNCHANGED <<rate_graph, quote_timestamps, last_processed_time, now, log, received,
                   subPc, subscribe_log>>

Next == Tick \/ Recv \/ ProcessQuote \/ Cleanup \/ Detect \/ Reconstruct \/ Continue

Spec == Init /\ [][Next]_vars

\* the listener thread is scheduled: the end of the loop body, and of the
\* except clause, is followed by the next pass of `while True'
SpecListen == Spec /\ WF_vars(Continue)

---------------------------------------------------------------------------
(* Subscriber.subscribe and Subscriber.run: the renewal thread beside the  *)
(* listener thread.                                                        *)

SubscribeAttempts == Len(SelectSeq(subscribe_log, LAMBDA c : c = "SUBSCRIBE"))

ListenerVars ==
    <<rate_graph, quote_timestamps, last_processed_time, quote_data, quotes_left, msg_len,
      pc, now, stale_cutoff_time, detection, log, received, cycle_detection_node>>

\* the try block runs to its end: log, socket, sendto; then time.sleep(600)
SendSubscribe ==
    /\ subPc = "send"
    /\ SubscribeAttempts < MaxSends
    /\ subscribe_log' = Append(subscribe_log, "SUBSCRIBE")
    /\ subPc' = "sleep"
    /\ UNCHANGED ListenerVars

\* the except clause leaving the loop instead of sleeping
SubscribeErrorExits ==
    /\ subPc = "send"
    /\ SubscribeAttempts < MaxSends
    /\ subscribe_log' = subscribe_log \o <<"SUBSCRIBE", "ERROR">>
    /\ subPc' = "exit"
    /\ UNCHANGED ListenerVars

\* socket, serialize_address or sendto raises: the except clause logs the
\* error; then time.sleep(5)
SubscribeError ==
    /\ subPc = "send"
    /\ SubscribeAttempts < MaxSends
    /\ subscribe_log' = subscribe_log \o <<"SUBSCRIBE", "ERROR">>
    /\ subPc' = "backoff"
    /\ UNCHANGED ListenerVars

\* time.sleep returns: back to the top of `while True'
Wake ==
    /\ subPc \in {"sleep", "backoff"}
    /\ subPc' = "send"
    /\ UNCHANGED <<ListenerVars, subscribe_log>>

RecvRun == RecvUpTo(MaxRunDatagrams)

NextRun ==
    \/ Tick \/ RecvRun \/ ProcessQuote \/ Cleanup \/ Detect \/ Reconstruct \/ Continue
    \/ SendSubscribe \/ SubscribeError \/ Wake

\* both threads started by run(); a sleeping thread is woken in the end
SpecRun == Init /\ [][NextRun]_vars /\ WF_vars(Wake)

---------------------------------------------------------------------------
(* The detector and the reconstructor on their own: the graph is any dict  *)
(* of dicts with at most MaxEdges edges, the start node any currency or    *)
(* one the graph does not hold, the tolerance the one listen passes or one *)
(* as large as an edge weight.                                             *)

SyntheticWeights == {500000, -10000}
StartNodes == Currency \cup {"JPY"}
Tolerances == {DETECTOR_TOLERANCE, 10000}

\* graph[u][v] = w, creating graph[u] when absent
PutEdge(g, u, v, w) ==
    LET g1 == IF ~DictHas(g, u) THEN DictSet(g, u, <<>>) ELSE g
    IN  DictSet(g1, u, DictSet(DictGet(g1, u), v, w))

RECURSIVE GraphsWith(_)
\* the graphs made by inserting n edges one after the other
GraphsWith(n) ==
    IF n = 0 THEN {<<>>}
    ELSE { PutEdge(g, e[1], e[2], e[3]) :
             g \in GraphsWith(n - 1), e \in Currency \X Currency \X SyntheticWeights }

SyntheticGraphs == UNION { GraphsWith(n) : n \in 0 .. MaxEdges }

InitDetector ==
    /\ rate_graph \in SyntheticGraphs
    /\ quote_timestamps = <<>>
    /\ now = 0
    /\ last_processed_time = 0
    /\ quote_data = NoQuote
    /\ quotes_left = 0
    /\ msg_len = 0
    /\ pc = "detect"
    /\ stale_cutoff_time = <<>>
    /\ detection = NoDetection
    /\ log = <<>>
    /\ received = MaxDatagrams
    /\ subPc = "send"
    /\ cycle_detection_node = None
    /\ subscribe_log = <<>>

DetectAny == \E start \in StartNodes, tolerance \in Tolerances : DetectWith(start, tolerance)

NextDetector == DetectAny \/ Reconstruct

SpecDetector == InitDetector /\ [][NextDetector]_vars

---------------------------------------------------------------------------
(* print_arbitrage on its own: called with any predecessor map over the    *)
(* currencies, any start node, and any graph of at most MaxEdges edges.    *)

ChainWeights == {-10000}
ChainGraphs ==
    { g \in SyntheticGraphs : \A e \in Edges(g) : Weight(g, e[1], e[2]) \in ChainWeights }
PredecessorMaps == [Currency -> Currency \cup {None}]

InitReconstructor ==
    /\ rate_graph \in ChainGraphs
    /\ quote_timestamps = <<>>
    /\ now = 0
    /\ last_processed_time = 0
    /\ quote_data = NoQuote
    /\ quotes_left = 0
    /\ msg_len = 0
    /\ pc = "print"
    /\ stale_cutoff_time = <<>>
    /\ \E predecessor_map \in PredecessorMaps :
          detection = [NoDetection EXCEPT !.predecessors = predecessor_map]
    /\ log = <<>>
    /\ received = MaxDatagrams
    /\ subPc = "send"
    /\ cycle_detection_node = None
    /\ subscribe_log = <<>>

\* self.print_arbitrage(predecessor_map, cycle_start_currency)
PrintArbitrage ==
    /\ pc = "print"
    /\ \E cycle_start_currency \in StartNodes :
          /\ cycle_detection_node' = cycle_start_currency
          /\ log' = print_arbitrage(rate_graph, detection.predecessors, cycle_start_currency,
                                    ARBITRAGE_START_AMOUNT * AmountScale)
    /\ pc' = "done"
    /\ UNCHANGED <<rate_graph, quote_timestamps, last_processed_time, quote_data,
                   quotes_left, msg_len, now, stale_cutoff_time, detection, received, subPc,
                   subscribe_log>>

NextReconstructor == PrintArbitrage

SpecReconstructor == InitReconstructor /\ [][NextReconstructor]_vars

---------------------------------------------------------------------------
(* Properties.                                                             *)

Stamp(u, v) == DictGet(quote_timestamps, <<u, v>>)
Rejection == <<"WARNING", "Ignoring out-of-sequence message">>
ExchangeLines(lg) == SelectSeq(lg, LAMBDA l : l[1] = "ARBITRAGE" /\ l[2] = "Exchange")
\* the currencies of the trade chain logged in lg
ReportedNodes(lg) ==
    { ExchangeLines(lg)[i][3] : i \in DOMAIN ExchangeLines(lg) }
      \cup { ExchangeLines(lg)[i][4] : i \in DOMAIN ExchangeLines(lg) }
\* the step just taken was a pass of the for-loop over quote_data'
QuoteStep == pc = "quote" /\ quote_data' \in Quote

\* C1 (as claimed): whenever the edge u -> v exists with weight w, the edge
\* v -> u exists with weight -w, for every pair of currencies, u = v included.
C1_Reciprocal ==
    \A u \in Currency, v \in Currency :
        HasEdge(rate_graph, u, v) =>
            /\ HasEdge(rate_graph, v, u)
            /\ Weight(rate_graph, v, u) = -1 * Weight(rate_graph, u, v)

\* C2 (as claimed): Last-Processed-Time never decreases.
C2_NeverDecreases == [][last_processed_time' >= last_processed_time]_vars

TwoWayDatagram ==
    /\ msg_len \div RECORD_SIZE = 2
    /\ pc \in {"cleanup", "detect", "reconstruct", "done"}
    /\ Len(log) >= 2
    /\ log[1] = <<"QUOTE", "USD", "GBP", 760>>
    /\ log[2] = <<"QUOTE", "GBP", "USD", 1320>>
    /\ (Len(log) >= 3 => log[3] # Rejection)

\* C4 (as claimed): after that datagram the graph holds USD -> GBP with weight
\* -ln(0.76) and GBP -> USD with weight -ln(1.32), and the detection run
\* reports the 2-cycle on USD and GBP.
C4_TwoCycleReported ==
    (TwoWayDatagram /\ pc = "done" /\ HasEdge(rate_graph, "USD", "GBP")) =>
        /\ Weight(rate_graph, "USD", "GBP") = -1 * Ln(760)
        /\ Weight(rate_graph, "GBP", "USD") = -1 * Ln(1320)
        /\ ReportedNodes(log) = {"USD", "GBP"}

\* C4 (amended): after that datagram's quotes the graph holds GBP -> USD with
\* weight -ln(1.32) and USD -> GBP with weight +ln(1.32), the second quote's
\* reciprocal having overwritten the first quote's edge; the sweep removes
\* both or neither; the two weights sum to zero and the detection run reports
\* no trade chain on USD and GBP alone.
C4_SecondQuoteOverwrites ==
    TwoWayDatagram =>
        /\ pc = "cleanup" => HasEdge(rate_graph, "USD", "GBP")
        /\ HasEdge(rate_graph, "USD", "GBP") <=> HasEdge(rate_graph, "GBP", "USD")
        /\ HasEdge(rate_graph, "USD", "GBP") =>
             /\ Weight(rate_graph, "GBP", "USD") = -1 * Ln(1320)
             /\ Weight(rate_graph, "USD", "GBP") = Ln(1320)
             /\ Weight(rate_graph, "USD", "GBP") + Weight(rate_graph, "GBP", "USD") = 0
        /\ ReportedNodes(log) # {"USD", "GBP"}

\* C4 witness: the datagram was processed to its end and both edges survived the sweep.
C4_Witness == TwoWayDatagram /\ pc = "done" /\ HasEdge(rate_graph, "USD", "GBP")

\* C5: once the sweep of a loop iteration has run, and so whenever the
\* detector runs, no edge of the graph has a recorded timestamp older than
\* that sweep's cutoff (its clock minus QUOTE_STALE_TIMEOUT), edges inserted
\* by this datagram's own quotes included.
C5_NoStaleEdgeAfterSweep ==
    (pc \in {"detect", "reconstruct", "done"} /\ stale_cutoff_time # <<>>) =>
        \A e \in Edges(rate_graph) :
            /\ DictHas(quote_timestamps, e)
            /\ ~(Stamp(e[1], e[2]) < stale_cutoff_time[1])

\* C5 witness: the detector is about to run after a sweep that removed an edge
\* a quote of the same datagram had just inserted, and that kept another edge.
C5_Witness ==
    /\ pc = "detect"
    /\ Edges(rate_graph) # {}
    /\ \E i \in DOMAIN log, j \in DOMAIN log :
          /\ i < j
          /\ log[i][1] = "QUOTE" /\ log[j][1] = "CLEANUP"
          /\ {log[i][2], log[i][3]} = {log[j][2], log[j][3]}

\* C6 (as claimed): the sweep keeps every edge whose own timestamp is not
\* older than the cutoff, one exactly at the cutoff included.
C6_SweepKeepsEdgeAtCutoff ==
    [][pc = "cleanup" =>
          \A e \in Edges(rate_graph) :
              (e[1] # e[2] /\ ~(Stamp(e[1], e[2]) < now - QUOTE_STALE_TIMEOUT))
                  => HasEdge(rate_graph', e[1], e[2])]_vars

\* the clock readings a sweep is tried with: one before anything can be
\* stale, and every reading around the cutoffs the timestamps can meet
SweepClocks == {0} \cup (QUOTE_STALE_TIMEOUT - 1 .. MaxTime + QUOTE_EXPIRATION_TIME)
SweepOnce(clock) == cleanup_graph(rate_graph, quote_timestamps, <<>>, clock)
SweepAgain(once, clock) == cleanup_graph(once.rate_graph, once.quote_timestamps, <<>>, clock)

\* C7: for every reachable graph and index and every clock reading, sweeping
\* twice with that reading leaves the same graph and index as sweeping once.
\* (Every graph and index the program reaches is held in a state at one of
\* the three positions named: the other positions do not write them.)
C7_SweepIdempotent ==
    pc \in {"recv", "quote", "cleanup"} =>
    \A clock \in SweepClocks :
        LET once == SweepOnce(clock)
            twice == SweepAgain(once, clock)
        IN  /\ twice.rate_graph = once.rate_graph
            /\ twice.quote_timestamps = once.quote_timestamps

\* C7 witness: a sweep that removes the edges of two currency pairs and keeps a third.
C7_Witness ==
    \E clock \in SweepClocks :
        LET once == SweepOnce(clock)
        IN  /\ Cardinality(Edges(rate_graph) \ Edges(once.rate_graph)) >= 3
            /\ Edges(once.rate_graph) # {}

\* C8 (as claimed): every quote with a positive price that passes the gate is
\* accepted, and right after it base -> quote weighs -ln(p), quote -> base
\* weighs +ln(p), both pairs carry its timestamp and Last-Processed-Time
\* equals its timestamp.
C8_AcceptedQuoteStored ==
    [][(/\ QuoteStep
        /\ quote_data'.price > 0
        /\ last_processed_time - quote_data'.timestamp < QUOTE_EXPIRATION_TIME)
          => LET b == quote_data'.cross[1]
                 q == quote_data'.cross[2]
             IN  /\ HasEdge(rate_graph', b, q) /\ HasEdge(rate_graph', q, b)
                 /\ Weight(rate_graph', b, q) = -1 * Ln(quote_data'.price)
                 /\ Weight(rate_graph', q, b) = Ln(quote_data'.price)
                 /\ DictGet(quote_timestamps', <<b, q>>) = quote_data'.timestamp
                 /\ DictGet(quote_timestamps', <<q, b>>) = quote_data'.timestamp
                 /\ last_processed_time' = quote_data'.timestamp]_vars

RECURSIVE Reach(_, _)
\* the nodes an edge path of g leads to from the set S
Reach(g, S) ==
    LET S2 == S \cup { e[2] : e \in { x \in Edges(g) : x[1] \in S } }
    IN  IF S2 = S THEN S ELSE Reach(g, S2)

\* the sequences of distinct currencies
SimplePaths ==
    { c \in UNION { [1 .. n -> Currency] : n \in 1 .. Cardinality(Currency) } :
        \A i \in DOMAIN c, j \in DOMAIN c : c[i] = c[j] => i = j }
Succ(c, i) == c[(i % Len(c)) + 1]
\* c[1] -> c[2] -> ... -> c[1] is a cycle of g
IsCycle(g, c) == \A i \in DOMAIN c : HasEdge(g, c[i], Succ(c, i))
RECURSIVE WeightFrom(_, _, _)
WeightFrom(g, c, i) ==
    IF i > Len(c) THEN 0 ELSE Weight(g, c[i], Succ(c, i)) + WeightFrom(g, c, i + 1)
CycleWeight(g, c) == WeightFrom(g, c, 1)
\* a negative-weight cycle of g can be reached from start
NegativeCycleReachable(g, start) ==
    \E c \in SimplePaths :
        IsCycle(g, c) /\ CycleWeight(g, c) < 0 /\ c[1] \in Reach(g, {start})
\* a cycle of g reachable from start whose weight is below -(its length * tolerance)
ClearNegativeCycleReachable(g, start, tolerance) ==
    \E c \in SimplePaths :
        /\ IsCycle(g, c) /\ c[1] \in Reach(g, {start})
        /\ CycleWeight(g, c) + Len(c) * tolerance < 0
\* some edge of g still improves on the distances returned
SomeEdgeImproves(g, d) ==
    \E e \in Edges(g) :
        Improves(d.distances[e[1]], Weight(g, e[1], e[2]), d.distances[e[2]], d.tolerance)
\* the graph A -> B, B -> C, C -> A with every weight w, in any dict order
IsTriangle(g, w) ==
    /\ Edges(g) = { <<"USD", "GBP">>, <<"GBP", "EUR">>, <<"EUR", "USD">> }
    /\ \A e \in Edges(g) : Weight(g, e[1], e[2]) = w
Detected == detection.start # None

\* C9 (as claimed): the detector returns a proof edge if and only if a
\* negative-weight cycle is reachable from the start node.
C9_ProofEdgeIffNegativeCycle ==
    Detected =>
        (detection.negative_edge # NoEdge
            <=> NegativeCycleReachable(rate_graph, detection.start))

\* C9 (amended): after |V|-1 rounds the detector returns a proof edge exactly
\* when some edge still satisfies distance(u) + weight < distance(v) - epsilon;
\* a proof edge implies that a negative-weight cycle is reachable from the
\* start node, and a reachable cycle of k edges whose weight is below
\* -k * epsilon yields a proof edge (every reachable negative cycle does at the
\* tolerance listen passes); the triangle of weights 0.5 yields none, the
\* triangle of weights -0.01 yields one from each of its nodes at that
\* tolerance, and no proof edge has an end at distance +infinity, so none is
\* returned when the start node is absent from the graph.
C9_ProofEdgeSound ==
    Detected =>
        /\ detection.negative_edge # NoEdge <=> SomeEdgeImproves(rate_graph, detection)
        /\ detection.negative_edge # NoEdge => NegativeCycleReachable(rate_graph, detection.start)
        /\ ClearNegativeCycleReachable(rate_graph, detection.start, detection.tolerance)
              => detection.negative_edge # NoEdge
        /\ (detection.tolerance = DETECTOR_TOLERANCE
              /\ NegativeCycleReachable(rate_graph, detection.start))
              => detection.negative_edge # NoEdge
        /\ IsTriangle(rate_graph, 500000) => detection.negative_edge = NoEdge
        /\ (IsTriangle(rate_graph, -10000) /\ detection.tolerance = DETECTOR_TOLERANCE
              /\ detection.start \in DictKeys(rate_graph))
              => detection.negative_edge # NoEdge
        /\ detection.negative_edge # NoEdge =>
              /\ detection.distances[detection.negative_edge[1]] # Infinity
              /\ detection.distances[detection.negative_edge[2]] # Infinity
        /\ detection.start \notin DictKeys(rate_graph) => detection.negative_edge = NoEdge

\* C9 witness: a proof edge was returned for a graph that also holds a node
\* left at distance +infinity.
C9_Witness ==
    /\ Detected
    /\ detection.negative_edge # NoEdge
    /\ \E v \in DOMAIN detection.distances : detection.distances[v] = Infinity

\* the trade chain logged: its Exchange lines
Chain == ExchangeLines(log)
RECURSIVE ChainWeightFrom(_, _)
ChainWeightFrom(g, i) ==
    IF i > Len(Chain) THEN 0
    ELSE Weight(g, Chain[i][3], Chain[i][4]) + ChainWeightFrom(g, i + 1)
\* the weight, in graph g, of the trade chain logged
ChainWeight(g) == ChainWeightFrom(g, 1)
\* the chain is a closed path of g: every step an edge, each step leaving from
\* where the one before arrived, the last arriving where the first left
ChainClosed(g) ==
    /\ \A i \in DOMAIN Chain : HasEdge(g, Chain[i][3], Chain[i][4])
    /\ \A i \in 1 .. Len(Chain) - 1 : Chain[i][4] = Chain[i + 1][3]
    /\ Chain[Len(Chain)][4] = Chain[1][3]
InitialAmount == ARBITRAGE_START_AMOUNT * AmountScale

\* C10: when a proof edge is returned for the graph A -> B, B -> C, C -> A with
\* weights -0.01, the chain reported is closed, visits exactly A, B and C along
\* the edges of the graph, in their direction, and ends with more than the
\* initial amount; and every chain reported, for any graph, is a closed path
\* of the graph with a negative total weight.
C10_ReportedChainIsNegativeCycle ==
    pc = "done" =>
        /\ (IsTriangle(rate_graph, -10000) /\ detection.negative_edge # NoEdge) =>
              /\ Len(Chain) = 3
              /\ ChainClosed(rate_graph)
              /\ ReportedNodes(log) = {"USD", "GBP", "EUR"}
              /\ Chain[Len(Chain)][6] > InitialAmount
        /\ Chain # <<>> =>
              /\ ChainClosed(rate_graph)
              /\ ChainWeight(rate_graph) < 0

\* C10 witness: the chain for the triangle of weights -0.01 has been reported.
C10_Witness ==
    /\ pc = "done"
    /\ IsTriangle(rate_graph, -10000)
    /\ detection.negative_edge # NoEdge
    /\ Len(Chain) = 3

\* the closed path print_arbitrage rebuilds for the node it was started from
ClosedPath == cycle_steps_of(detection.predecessors, cycle_detection_node)
\* print_arbitrage got past its two early returns
PathAccepted ==
    /\ PredGet(detection.predecessors, cycle_detection_node) # None
    /\ Len(ClosedPath) >= 2
    /\ ClosedPath[1] = ClosedPath[Len(ClosedPath)]
\* some step of the closed path is not an edge of the graph
EdgeMissing ==
    /\ PathAccepted
    /\ \E i \in 1 .. Len(ClosedPath) - 1 : ~HasEdge(rate_graph, ClosedPath[i], ClosedPath[i + 1])
ArbitrageLines(lg) == SelectSeq(lg, LAMBDA l : l[1] = "ARBITRAGE")

\* C11 (as claimed): when an edge of the reconstructed closed path is missing
\* from the graph, print_arbitrage emits no arbitrage line: no header, no
\* starting amount, no exchange step.
C11_MissingEdgeReportsNothing ==
    (pc = "done" /\ cycle_detection_node # None /\ EdgeMissing) => ArbitrageLines(log) = <<>>

\* the step is a pass of the for-loop over a quote of a datagram whose length
\* is not a multiple of RECORD_SIZE
PartialPayload == msg_len % RECORD_SIZE # 0

ErrorLine == <<"ERROR", "Listener error">>
Failed(lg) == \E i \in DOMAIN lg : lg[i] = ErrorLine

\* C13: whenever the processing of a datagram fails, the except clause is
\* the only thing that runs next and it leads back to recvfrom with the graph,
\* the index and Last-Processed-Time as the failure left them, where the next
\* datagram can be received.
C13_ListenerSurvives ==
    /\ [][pc = "except" =>
            /\ pc' = "recv"
            /\ UNCHANGED <<rate_graph, quote_timestamps, last_processed_time, received>>]_vars
    /\ (pc = "except") ~> (pc = "recv")

\* C13 witness: the loop is back at recvfrom after a datagram that failed once
\* one of its quotes had been applied, and a further datagram can arrive.
C13_Witness ==
    /\ pc = "recv"
    /\ received < MaxDatagrams
    /\ Failed(log)
    /\ Edges(rate_graph) # {}

\* C14 (as claimed): within one datagram the steps follow one another as
\* quotes, then the sweep, then the detector when the graph is non-empty: a
\* pass over a quote is followed by the next quote or by the sweep, and the
\* sweep by the detector or, for an empty graph, by the end of the iteration.
C14_QuotesThenSweepThenDetector ==
    [][/\ pc = "quote" => pc' \in {"quote", "cleanup"}
       /\ pc = "cleanup" => pc' = IF rate_graph' # <<>> THEN "detect" ELSE "done"
       /\ pc' = "detect" => pc = "cleanup"
       /\ (pc' = "recv" /\ pc # "recv" /\ msg_len >= RECORD_SIZE /\ log # <<>>
             /\ log[1][1] = "QUOTE") => stale_cutoff_time # <<>>]_vars

\* C15: the renewal thread is always at its send, in its ten-minute sleep or
\* in its backoff, never past the end of its loop; a failed send leads to the
\* backoff and the backoff to the next send attempt and nowhere else; and no
\* step of the renewal thread, wherever the listener stands, changes the rate
\* graph, the timestamp index or Last-Processed-Time.
C15_RenewalRetries ==
    /\ [](subPc \in {"send", "sleep", "backoff"})
    /\ [][subPc = "backoff" => subPc' \in {"backoff", "send"}]_vars
    /\ [][subPc' # subPc \/ subscribe_log' # subscribe_log
            => UNCHANGED <<rate_graph, quote_timestamps, last_processed_time>>]_vars
    /\ (subPc = "backoff") ~> (subPc = "send")

\* C15 witness: a send failed, the backoff passed and the next send attempt
\* was made, all while the listener was inside a datagram that had already
\* written the graph.
C15_Witness ==
    /\ subscribe_log = <<"SUBSCRIBE", "ERROR", "SUBSCRIBE">>
    /\ pc \in {"quote", "cleanup", "detect"}
    /\ Edges(rate_graph) # {}

\* C16: in every reachable state the timestamp index has an entry for the
\* ordered pair (u, v) exactly when the graph holds the edge u -> v, and for
\* every edge the entries for (u, v) and (v, u) carry the same timestamp.
C16_IndexMatchesGraph ==
    /\ \A i \in DOMAIN quote_timestamps :
          HasEdge(rate_graph, quote_timestamps[i][1][1], quote_timestamps[i][1][2])
    /\ \A e \in Edges(rate_graph) :
          /\ DictHas(quote_timestamps, e)
          /\ DictHas(quote_timestamps, <<e[2], e[1]>>)
          /\ Stamp(e[1], e[2]) = Stamp(e[2], e[1])

\* C16 witness: a sweep has removed the edges of one pair and kept those of
\* two others that carry different timestamps.
C16_Witness ==
    /\ pc = "detect"
    /\ \E i \in DOMAIN log : log[i][1] = "CLEANUP"
    /\ \E e \in Edges(rate_graph), f \in Edges(rate_graph) :
          Stamp(e[1], e[2]) # Stamp(f[1], f[2])

RECURSIVE PredReturns(_, _, _, _)
\* following predecessor_map from node leads to target within k steps
PredReturns(predecessor_map, target, node, k) ==
    /\ k > 0
    /\ PredGet(predecessor_map, node) # None
    /\ \/ PredGet(predecessor_map, node) = target
       \/ PredReturns(predecessor_map, target, PredGet(predecessor_map, node), k - 1)
\* node lies on a cycle of predecessor_map
OnPredecessorCycle(predecessor_map, node) ==
    PredReturns(predecessor_map, node, node, Cardinality(DOMAIN predecessor_map))
\* print_arbitrage started from node rebuilds a path that leaves node and returns to it
ClosesCycle(predecessor_map, node) ==
    LET cycle_steps == cycle_steps_of(predecessor_map, node)
    IN  /\ Len(cycle_steps) >= 2
        /\ cycle_steps[1] = node
        /\ cycle_steps[Len(cycle_steps)] = node

\* C17 (as claimed): once a proof edge (u, v) is returned, predecessors[v] is
\* set to u if it was unset and no other entry changes; the node the walk of
\* |V| predecessor steps from u ends on lies on a cycle of the predecessor
\* map, and print_arbitrage started from it closes a cycle; when the walk
\* meets a missing predecessor, no arbitrage line is logged.
C17_WalkBackSeed ==
    [][pc = "reconstruct" =>
         LET u == detection.negative_edge[1]
             v == detection.negative_edge[2]
             before == detection.predecessors
             after == detection'.predecessors
         IN  /\ PredGet(before, v) = None => PredGet(after, v) = u
             /\ \A k \in DOMAIN before : (k # v \/ before[k] # None) => after[k] = before[k]
             /\ cycle_detection_node' # None =>
                   /\ OnPredecessorCycle(after, cycle_detection_node')
                   /\ ClosesCycle(after, cycle_detection_node')
             /\ cycle_detection_node' = None => ArbitrageLines(log') = <<>>]_vars

\* C17 witness: the proof edge (u, v) ended on the start node, whose
\* predecessor was unset and is now u, and the chain through the node the
\* walk ended on has been reported.
C17_Witness ==
    /\ pc = "done"
    /\ detection.negative_edge # NoEdge
    /\ detection.negative_edge[2] = detection.start
    /\ detection.negative_edge[1] # detection.negative_edge[2]
    /\ detection.distances[detection.start] = 0
    /\ detection.predecessors[detection.start] = detection.negative_edge[1]
    /\ cycle_detection_node # None
    /\ Chain # <<>>

\* the nodes of a path
PathNodes(path) == { path[i] : i \in DOMAIN path }
\* path leaves node, returns to it, names at least two distinct nodes and
\* repeats none of them in between
SimpleCycleFrom(path, node) ==
    /\ Len(path) >= 3
    /\ path[1] = node /\ path[Len(path)] = node
    /\ Cardinality(PathNodes(path)) >= 2
    /\ \A i \in 2 .. Len(path) - 1 :
          /\ path[i] # node
          /\ \A j \in 2 .. Len(path) - 1 : path[i] = path[j] => i = j

\* C18 (as claimed): for every predecessor map and start node, what
\* print_arbitrage reports is a simple cycle through the start node, with at
\* least two distinct nodes and no intermediate node repeated; when the start
\* node is its own predecessor, or the walk runs into a node already visited
\* without returning to the start node, no arbitrage line is logged.
C18_OnlySimpleCycles ==
    (pc = "done" /\ cycle_detection_node # None) =>
        /\ ArbitrageLines(log) # <<>> => SimpleCycleFrom(ClosedPath, cycle_detection_node)
        /\ PredGet(detection.predecessors, cycle_detection_node) = cycle_detection_node
              => ArbitrageLines(log) = <<>>
        /\ ~PredReturns(detection.predecessors, cycle_detection_node, cycle_detection_node,
                        Cardinality(Currency))
              => ArbitrageLines(log) = <<>>

\* C19 (as claimed): a pass of the for-loop over a quote whose price is not
\* positive leaves the graph, the index and Last-Processed-Time unchanged and
\* goes on to the next quote of the datagram, or to the sweep after the last.
C19_NonPositivePriceSkipped ==
    [][(QuoteStep /\ quote_data'.price <= 0) =>
          /\ UNCHANGED <<rate_graph, quote_timestamps, last_processed_time>>
          /\ quotes_left' = quotes_left - 1
          /\ pc' = IF quotes_left' = 0 THEN "cleanup" ELSE "quote"]_vars

=============================================================================
